---------------------------- MODULE Spec2Model ----------------------------
(***************************************************************************)
(* The LQR notebook (src/lqr-demo.ipynb): the gain solver lqr(A, B, Q, R)  *)
(* and the closed-loop simulator integrate(x0, pi, num_steps), which reads *)
(* the module-level matrices A, B and the offsets C = -goal_state and D.   *)
(*                                                                         *)
(* Numbers are integers and every product, sum and difference is exact:    *)
(* the inputs are drawn from small integers, on which numpy's float64      *)
(* arithmetic is exact as well.  A vector is a sequence, a matrix (a 2-D   *)
(* numpy array) a sequence of rows, so that shape[0] is Len(m) and         *)
(* shape[1] is Len(m[1]).  The inverse of an integer matrix is kept as a   *)
(* numerator matrix over a common denominator.                             *)
(***************************************************************************)
EXTENDS Integers, Sequences, FiniteSets

VARIABLES
    A, B, Q, R,      \* module-level dynamics and cost matrices
    goal_state,      \* module-level goal (the offset_state of the contract)
    C, D,            \* module-level offsets: C = -goal_state, D is N x 1
    x0, pi,          \* integrate: arguments
    num_steps,       \* integrate: argument
    ipc,             \* integrate: position ("off", "call", "loop", "done",
                     \* "raised")
    step,            \* integrate: iterations of the for loop completed
    traj,            \* integrate: the local array traj (shifted states)
    pi_args,         \* integrate: the arguments the policy was called with
    itraj,           \* integrate: the returned trajectory (<<>> before return)
    iraised,         \* integrate: the exception that ended the call, or NoError
    lpc,             \* lqr: position
    M,               \* lqr: the local M, the Riccati solution (<<>> before)
    raised,          \* lqr: the exception that ended the call, or NoError
    K,               \* lqr: the returned gain, or NoGain
    solver_calls,    \* lqr: invocations of scipy.linalg.solve_discrete_are
    gain_calls,      \* lqr: evaluations of the gain expression
    history,         \* the calls of the session that have ended, oldest first
    other            \* the frame of a second call that runs in another thread

globals == <<A, B, Q, R, goal_state, C, D>>
iframe  == <<x0, pi, num_steps, ipc, step, traj, pi_args, itraj, iraised>>
lframe  == <<lpc, M, raised, K, solver_calls, gain_calls>>
session == <<history, other>>
vars    == <<globals, iframe, lframe, session>>

---------------------------------------------------------------------------
(* Bounds of the model. *)

\* integrate is called with num_steps in -1 .. MaxSteps
MaxSteps == 2
\* coordinates of x0 and goal_state are drawn from 0 .. MaxCoord
MaxCoord == 1

\* entries of the dynamics matrices A and B and of a feedback gain
Entries == {0, 1}
\* entries of the control offset D (the demo's D is (0, -9.81))
OffsetEntries == {-1, 0}
\* the simulated system has StateIdx states and CtrlIdx controls
StateIdx == 1 .. 2
CtrlIdx  == 1 .. 1

---------------------------------------------------------------------------
(* numpy on vectors and matrices. *)

RECURSIVE SumTo(_, _)
SumTo(f, n) == IF n = 0 THEN 0 ELSE f[n] + SumTo(f, n - 1)

\* np.dot of two 1-D arrays
Dot(u, v) == SumTo([i \in 1 .. Len(u) |-> u[i] * v[i]], Len(u))

\* numpy broadcasts a 1-D array of length 1 against any length; two
\* lengths that differ and are both not 1 raise ValueError
Broadcastable(u, v) == Len(u) = Len(v) \/ Len(u) = 1 \/ Len(v) = 1
BroadcastLen(u, v)  == IF Len(u) >= Len(v) THEN Len(u) ELSE Len(v)
At(u, i)            == IF Len(u) = 1 THEN u[1] ELSE u[i]

VecAdd(u, v) == [i \in 1 .. BroadcastLen(u, v) |-> At(u, i) + At(v, i)]
VecSub(u, v) == [i \in 1 .. BroadcastLen(u, v) |-> At(u, i) - At(v, i)]
VecNeg(u)    == [i \in 1 .. Len(u) |-> 0 - u[i]]
Zeros(n)     == [i \in 1 .. n |-> 0]

\* m.dot(v) for a 2-D array m and a 1-D array v
MatVec(m, v) == [i \in 1 .. Len(m) |-> Dot(m[i], v)]

\* np.squeeze of an N x 1 array: the 1-D array of its N entries
Squeeze(d) == [i \in 1 .. Len(d) |-> d[i][1]]

Rows(m) == Len(m)
Cols(m) == Len(m[1])

Vectors(n, S)      == [1 .. n -> S]
Matrices(r, c, S)  == [1 .. r -> [1 .. c -> S]]

\* m.T
Transpose(m) == [j \in 1 .. Cols(m) |-> [i \in 1 .. Rows(m) |-> m[i][j]]]

\* np.dot of two 2-D arrays
MatMul(a, b) ==
    [i \in 1 .. Rows(a) |->
        [j \in 1 .. Cols(b) |->
            SumTo([l \in 1 .. Cols(a) |-> a[i][l] * b[l][j]], Cols(a))]]

MatAdd(a, b) == [i \in 1 .. Rows(a) |-> [j \in 1 .. Cols(a) |-> a[i][j] + b[i][j]]]
MatSub(a, b) == [i \in 1 .. Rows(a) |-> [j \in 1 .. Cols(a) |-> a[i][j] - b[i][j]]]
Scale(c, m)  == [i \in 1 .. Rows(m) |-> [j \in 1 .. Cols(m) |-> c * m[i][j]]]

\* the i-th of the indices 1 .. n with index k left out
Skip(k, i) == IF i < k THEN i ELSE i + 1

\* m without row r and column c
Minor(m, r, c) ==
    [i \in 1 .. Rows(m) - 1 |-> [j \in 1 .. Cols(m) - 1 |-> m[Skip(r, i)][Skip(c, j)]]]

Sign(i) == IF i % 2 = 0 THEN 1 ELSE -1

\* the determinant, expanded along the first row
RECURSIVE Det(_)
Det(m) ==
    IF Rows(m) = 1
    THEN m[1][1]
    ELSE SumTo([j \in 1 .. Rows(m) |-> Sign(1 + j) * m[1][j] * Det(Minor(m, 1, j))],
               Rows(m))

\* the adjugate: m * Adj(m) = Det(m) * I
Adj(m) ==
    IF Rows(m) = 1
    THEN <<<<1>>>>
    ELSE [i \in 1 .. Rows(m) |->
             [j \in 1 .. Rows(m) |-> Sign(i + j) * Det(Minor(m, j, i))]]

IsSquare(m)    == Rows(m) = Cols(m)
IsSymmetric(m) == IsSquare(m) /\ m = Transpose(m)

---------------------------------------------------------------------------
(* The policies of the demo cell. *)

\* lambda s: np.zeros(num_actions)          (the zero policy)
\* lambda s: -k_agg.dot(s) - np.squeeze(D)  (closed loop, gain k)
Policies ==
    {[kind |-> "zero"]}
        \cup {[kind |-> "feedback", k |-> k] :
                 k \in Matrices(Cardinality(CtrlIdx), Cardinality(StateIdx), Entries)}

\* policies a caller may pass besides the demo's:
\*   lambda s: np.zeros(n)     (a control of length n, whatever B is)
\*   lambda s: table[s[0]]     (a dict of zero controls: KeyError off its keys)
KeySets == {lo .. hi : lo \in {-1, 0}, hi \in {0, 1}}
AnyPolicies ==
    {[kind |-> "zeros", n |-> n] : n \in 1 .. 3}
        \cup {[kind |-> "lookup", keys |-> S] : S \in KeySets}

\* a closed-loop policy that leaves the control offset in (-k.dot(s))
ApplyNoOffset(p, s) ==
    IF p.kind = "zero"
    THEN Zeros(Cardinality(CtrlIdx))
    ELSE VecNeg(MatVec(p.k, s))

\* the value pi(s) returns
Apply(p, s) ==
    CASE p.kind = "zero"     -> Zeros(Cardinality(CtrlIdx))
      [] p.kind = "feedback" -> VecSub(VecNeg(MatVec(p.k, s)), Squeeze(D))
      [] p.kind = "zeros"    -> Zeros(p.n)
      [] p.kind = "lookup"   -> Zeros(Cols(B))

\* pi(s) raises instead of returning
PolicyRaises(p, s) == p.kind = "lookup" /\ s[1] \notin p.keys

---------------------------------------------------------------------------
(* integrate(x0, pi, num_steps) *)

NoError == [type |-> "none"]
NoGain  == [num |-> <<>>, den |-> 0]

Raise(t, m) == [type |-> t, msg |-> m]

\* one call in one thread
NoOther   == [kind |-> "none"]
NoSession == history = <<>> /\ other = NoOther

\* the lqr frame while integrate runs
LqrOff ==
    /\ lpc = "off" /\ M = <<>> /\ raised = NoError /\ K = NoGain
    /\ solver_calls = 0 /\ gain_calls = 0

\* the system-definition cell, then a call integrate(x0, pi, num_steps)
InitIntegrate ==
    /\ A \in Matrices(Cardinality(StateIdx), Cardinality(StateIdx), Entries)
    /\ B \in Matrices(Cardinality(StateIdx), Cardinality(CtrlIdx), Entries)
    /\ goal_state \in Vectors(Cardinality(StateIdx), 0 .. MaxCoord)
    /\ C = VecNeg(goal_state)
    /\ D \in Matrices(Cardinality(CtrlIdx), 1, OffsetEntries)
    /\ Q = <<>> /\ R = <<>>
    /\ x0 \in Vectors(Cardinality(StateIdx), 0 .. MaxCoord)
    /\ pi \in Policies
    /\ num_steps \in -1 .. MaxSteps
    /\ ipc = "call" /\ step = 0 /\ traj = <<>> /\ pi_args = <<>> /\ itraj = <<>>
    /\ iraised = NoError
    /\ LqrOff
    /\ NoSession

\* an argument shifted in place (x0 += C)
ArgShiftedInPlace(x) == VecAdd(x, C)

\* x0.copy(): the caller's array after the first row was built
ArgAfterCopy(x) == x

\* a first row that continues the trajectory of the call before
FirstRowSticky(x) ==
    IF history # <<>>
    THEN VecAdd(VecAdd(history[1].itraj[Len(history[1].itraj)], history[1].C), C)
    ELSE VecAdd(x, C)

\* a first row that is not shifted
FirstRowUnshifted(x) == x

\* traj = np.array([x0.copy() + C])
FirstRow(x) == VecAdd(x, C)

IntegrateEnter ==
    /\ ipc = "call"
    /\ IF Broadcastable(x0, C)
       THEN /\ traj' = <<FirstRow(x0)>>
            /\ x0' = ArgAfterCopy(x0)
            /\ ipc' = "loop"
            /\ UNCHANGED iraised
       ELSE /\ iraised' = Raise("ValueError", "operands could not be broadcast together")
            /\ ipc' = "raised"
            /\ UNCHANGED <<traj, x0>>
    /\ UNCHANGED <<globals, pi, num_steps, step, pi_args, itraj, lframe, session>>

\* a step that adds the increment to the state (x + A.dot(x) + ...)
XPrimeIncrement(x, u) ==
    VecAdd(x, VecAdd(MatVec(A, x), MatVec(B, VecAdd(u, Squeeze(D)))))

\* x_prime = A.dot(x) + B.dot(u + np.squeeze(D))
XPrime(x, u) == VecAdd(MatVec(A, x), MatVec(B, VecAdd(u, Squeeze(D))))

\* a loop that runs until the counter meets num_steps (while step != num_steps)
LoopRunningUntilEqual == step # num_steps /\ step <= MaxSteps

\* a loop that runs once too often
LoopRunningInclusive == step <= num_steps

\* for step in range(num_steps): another iteration is due
LoopRunning == step < num_steps

\* the oldest row (x = traj[0, :])
OldestRow(t) == t[1]

\* x = traj[-1, :]
LastRow(t) == t[Len(t)]

\* a loop body that swallows an exception and carries the state over
StepOutcomeSwallow(p, x) ==
    IF \/ PolicyRaises(p, x)
       \/ ~Broadcastable(Apply(p, x), Squeeze(D))
       \/ BroadcastLen(Apply(p, x), Squeeze(D)) # Cols(B)
    THEN [ok |-> TRUE, x_prime |-> x]
    ELSE [ok |-> TRUE, x_prime |-> XPrime(x, Apply(p, x))]

\* the loop body from the row x under the policy p: the row x_prime, or the
\* exception that leaves the loop (raised by p, by u + np.squeeze(D) or by
\* B.dot)
StepOutcome(p, x) ==
    IF PolicyRaises(p, x)
    THEN [ok |-> FALSE, error |-> Raise("KeyError", "key not in table")]
    ELSE IF ~Broadcastable(Apply(p, x), Squeeze(D))
    THEN [ok |-> FALSE,
          error |-> Raise("ValueError", "operands could not be broadcast together")]
    ELSE IF BroadcastLen(Apply(p, x), Squeeze(D)) # Cols(B)
    THEN [ok |-> FALSE, error |-> Raise("ValueError", "shapes not aligned")]
    ELSE [ok |-> TRUE, x_prime |-> XPrime(x, Apply(p, x))]

\* one iteration of the loop
IntegrateStep ==
    /\ ipc = "loop"
    /\ LoopRunning
    /\ LET x == LastRow(traj)
           o == StepOutcome(pi, x)
       IN  /\ pi_args' = Append(pi_args, x)
           /\ IF o.ok
              THEN /\ traj' = Append(traj, o.x_prime)
                   /\ step' = step + 1
                   /\ UNCHANGED <<ipc, iraised>>
              ELSE /\ iraised' = o.error
                   /\ ipc' = "raised"
                   /\ UNCHANGED <<traj, step>>
    /\ UNCHANGED <<globals, x0, pi, num_steps, itraj, lframe, session>>

\* a return of the shifted array (return traj)
UnshiftNone(t) == t

\* return traj - C
Unshift(t) == [i \in 1 .. Len(t) |-> VecSub(t[i], C)]

IntegrateReturn ==
    /\ ipc = "loop"
    /\ ~LoopRunning
    /\ itraj' = Unshift(traj)
    /\ ipc' = "done"
    /\ UNCHANGED <<globals, x0, pi, num_steps, step, traj, pi_args, iraised, lframe, session>>

NextIntegrate == IntegrateEnter \/ IntegrateStep \/ IntegrateReturn

SpecIntegrate == InitIntegrate /\ [][NextIntegrate]_vars

\* a two-state, two-control system, and a call whose x0 and whose policy
\* need not fit it
AnyDynamics == {<<<<1, 0>>, <<0, 1>>>>, <<<<1, 1>>, <<0, 1>>>>}
AnyInputs   == {<<<<1, 0>>, <<0, 1>>>>, <<<<1, 1>>, <<1, 1>>>>}

InitIntegrateAny ==
    /\ A \in AnyDynamics
    /\ B \in AnyInputs
    /\ goal_state \in Vectors(2, 0 .. MaxCoord)
    /\ C = VecNeg(goal_state)
    /\ D \in Matrices(2, 1, OffsetEntries)
    /\ Q = <<>> /\ R = <<>>
    /\ x0 \in UNION {Vectors(n, 0 .. MaxCoord) : n \in 1 .. 3}
    /\ pi \in AnyPolicies
    /\ num_steps \in -1 .. MaxSteps
    /\ ipc = "call" /\ step = 0 /\ traj = <<>> /\ pi_args = <<>> /\ itraj = <<>>
    /\ iraised = NoError
    /\ LqrOff
    /\ NoSession

SpecIntegrateAny == InitIntegrateAny /\ [][NextIntegrate]_vars

---------------------------------------------------------------------------
(* A notebook session: a call of integrate, cells that assign the          *)
(* module-level variables, and the same call again.                        *)

SessionInputs == {<<<<0>>, <<1>>>>, <<<<1>>, <<1>>>>}
SessionGoals  == {<<0, 0>>, <<1, 0>>}
SessionPolicies ==
    {[kind |-> "zero"],
     [kind |-> "feedback", k |-> <<<<1, 0>>>>],
     [kind |-> "feedback", k |-> <<<<0, 1>>>>]}

InitSession ==
    /\ A \in AnyDynamics
    /\ B \in SessionInputs
    /\ goal_state \in SessionGoals
    /\ C = VecNeg(goal_state)
    /\ D \in Matrices(1, 1, OffsetEntries)
    /\ Q = <<>> /\ R = <<>>
    /\ x0 \in Vectors(2, Entries)
    /\ pi \in SessionPolicies
    /\ num_steps \in 0 .. MaxSteps
    /\ ipc = "call" /\ step = 0 /\ traj = <<>> /\ pi_args = <<>> /\ itraj = <<>>
    /\ iraised = NoError
    /\ LqrOff
    /\ NoSession

\* the call has returned; the cell that made it runs again, with the same
\* arguments
CallAgain ==
    /\ ipc = "done"
    /\ history = <<>>
    /\ history' = <<[A |-> A, B |-> B, C |-> C, D |-> D, itraj |-> itraj]>>
    /\ ipc' = "call" /\ step' = 0 /\ traj' = <<>> /\ pi_args' = <<>> /\ itraj' = <<>>
    /\ UNCHANGED <<globals, x0, pi, num_steps, iraised, lframe, other>>

\* between the calls a cell assigns one of the module-level A, B,
\* goal_state with C, D
Redefine ==
    /\ ipc = "call"
    /\ history # <<>>
    /\ \/ A' \in AnyDynamics /\ UNCHANGED <<B, goal_state, C, D>>
       \/ B' \in SessionInputs /\ UNCHANGED <<A, goal_state, C, D>>
       \/ /\ goal_state' \in SessionGoals
          /\ C' = VecNeg(goal_state')
          /\ UNCHANGED <<A, B, D>>
       \/ D' \in Matrices(1, 1, OffsetEntries) /\ UNCHANGED <<A, B, goal_state, C>>
    /\ UNCHANGED <<Q, R, iframe, lframe, session>>

NextSession == NextIntegrate \/ CallAgain \/ Redefine

SpecSession == InitSession /\ [][NextSession]_vars

---------------------------------------------------------------------------
(* A run in two legs and in one: integrate(x0, pi, n), then                *)
(* integrate(T_n, pi, m) from the last state T_n of the first call, then   *)
(* integrate(x0, pi, n + m).                                               *)

\* the call of n steps has returned: m steps are run on from its last state
CallFromLast ==
    /\ ipc = "done"
    /\ history = <<>>
    /\ history' = <<[x0 |-> x0, num_steps |-> num_steps, itraj |-> itraj]>>
    /\ x0' = LastRow(itraj)
    /\ num_steps' \in 0 .. MaxSteps
    /\ ipc' = "call" /\ step' = 0 /\ traj' = <<>> /\ pi_args' = <<>> /\ itraj' = <<>>
    /\ UNCHANGED <<globals, pi, iraised, lframe, other>>

\* both legs have returned: the n + m steps are run in one call from x0
CallWhole ==
    /\ ipc = "done"
    /\ Len(history) = 1
    /\ history' = Append(history,
                         [x0 |-> x0, num_steps |-> num_steps, itraj |-> itraj])
    /\ x0' = history[1].x0
    /\ num_steps' = history[1].num_steps + num_steps
    /\ ipc' = "call" /\ step' = 0 /\ traj' = <<>> /\ pi_args' = <<>> /\ itraj' = <<>>
    /\ UNCHANGED <<globals, pi, iraised, lframe, other>>

NextCompose == NextIntegrate \/ CallFromLast \/ CallWhole

SpecCompose == InitSession /\ [][NextCompose]_vars

---------------------------------------------------------------------------
(* scipy.linalg.solve_discrete_are and scipy.linalg.inv, by their          *)
(* documented contracts.                                                   *)

\* entries of the Riccati solutions the model can represent: 0 .. MaxP
MaxP == 3

Abs(n) == IF n < 0 THEN 0 - n ELSE n

\* every eigenvalue of num/den lies strictly inside the unit circle
\* (1 x 1 and 2 x 2 matrices: the Jury conditions on the characteristic
\* polynomial z^2 - tr z + det)
SchurStable(num, den) ==
    IF Rows(num) = 1
    THEN Abs(num[1][1]) < Abs(den)
    ELSE /\ Abs(Det(num)) < den * den
         /\ Abs(num[1][1] + num[2][2]) * Abs(den) < den * den + Det(num)

\* a solution of the Riccati equation, stabilizing or not
IsSolution(a, b, q, r, p) ==
    LET btp == MatMul(Transpose(b), p)
        s   == MatAdd(MatMul(btp, b), r)
        d   == Det(s)
        g   == MatMul(btp, a)
        k   == MatMul(Adj(s), g)
    IN  /\ d # 0
        /\ Scale(d, p) =
               MatSub(Scale(d, MatAdd(MatMul(MatMul(Transpose(a), p), a), q)),
                      MatMul(Transpose(g), k))

\* P = P' solves P = A'PA - A'PB (B'PB + R)^-1 B'PA + Q and the closed loop
\* A - B (B'PB + R)^-1 B'PA is stable (multiplied through by Det(B'PB + R);
\* A'PB is the transpose of B'PA)
IsStabilizingSolution(a, b, q, r, p) ==
    LET btp == MatMul(Transpose(b), p)
        s   == MatAdd(MatMul(btp, b), r)
        d   == Det(s)
        g   == MatMul(btp, a)
        k   == MatMul(Adj(s), g)
    IN  /\ d # 0
        /\ Scale(d, p) =
               MatSub(Scale(d, MatAdd(MatMul(MatMul(Transpose(a), p), a), q)),
                      MatMul(Transpose(g), k))
        /\ SchurStable(MatSub(Scale(d, a), MatMul(b, k)), d)

\* the symmetric n x n matrices with entries in S
SymMatrices(n, S) ==
    {[i \in 1 .. n |-> [j \in 1 .. n |-> IF i <= j THEN u[i][j] ELSE u[j][i]]] :
        u \in {v \in Matrices(n, n, S) : \A i, j \in 1 .. n : i > j => v[i][j] = v[1][1]}}

\* the stabilizing solutions among the symmetric matrices over 0 .. MaxP
\* (a Riccati equation has at most one stabilizing solution)
StabilizingSolutions(a, b, q, r) ==
    {p \in SymMatrices(Rows(a), 0 .. MaxP) : IsStabilizingSolution(a, b, q, r, p)}

\* no matrix at all is a stabilizing solution: B = 0 leaves the closed loop
\* at an A that is not stable, or a 1 x 1 system has |a| = 1 and q = 0
NoStabilizingSolution(a, b, q, r) ==
    \/ /\ b = [i \in 1 .. Rows(b) |-> [j \in 1 .. Cols(b) |-> 0]]
       /\ ~SchurStable(a, 1)
    \/ /\ Rows(a) = 1
       /\ Abs(a[1][1]) = 1
       /\ q[1][1] = 0

\* scipy.linalg.inv(s): the inverse as Adj(s) over Det(s), or LinAlgError
Inv(s) ==
    IF Det(s) = 0
    THEN [ok |-> FALSE, error |-> Raise("LinAlgError", "singular matrix")]
    ELSE [ok |-> TRUE, num |-> Adj(s), den |-> Det(s)]

---------------------------------------------------------------------------
(* lqr(A, B, Q, R) *)

\* shapes are drawn from 1 .. MaxDim
MaxDim == 4
\* entries of the cost matrices Q and R
CostEntries == {0, 1}
ControlCostEntries == {0, 1, 2}
\* the shapes (M, N) on which the solver is run
ValueShapes == {<<1, 1>>, <<2, 1>>, <<1, 2>>}

Ones(r, c) == [i \in 1 .. r |-> [j \in 1 .. c |-> 1]]

\* arguments of every invalid shape (their entries are never read), and
\* arguments of the valid shapes with every entry
ShapeArgs ==
    {<<Ones(s[1], s[2]), Ones(s[3], s[4]), Ones(s[5], s[6]), Ones(s[7], s[8])>> :
        s \in {t \in [1 .. 8 -> 1 .. MaxDim] :
                  ~(/\ t[1] = t[2] /\ t[5] = t[6] /\ t[7] = t[8]
                    /\ t[3] = t[1] /\ t[5] = t[1] /\ t[7] = t[4])}}

ValueArgs ==
    UNION {Matrices(s[1], s[1], Entries) \X Matrices(s[1], s[2], Entries)
               \X Matrices(s[1], s[1], CostEntries)
               \X Matrices(s[2], s[2], ControlCostEntries) : s \in ValueShapes}

\* the shapes solve_discrete_are accepts
SolverShapesOk(a, b, q, r) ==
    /\ IsSquare(a) /\ IsSquare(q) /\ IsSquare(r)
    /\ Rows(q) = Rows(a) /\ Rows(b) = Rows(a) /\ Cols(b) = Rows(r)

\* the stabilizing solutions of the arguments of valid shape, found once
RiccatiTable ==
    [g \in {h \in ValueArgs : IsSymmetric(h[3]) /\ IsSymmetric(h[4])} |->
        StabilizingSolutions(g[1], g[2], g[3], g[4])]

Solutions(a, b, q, r) ==
    IF <<a, b, q, r>> \in DOMAIN RiccatiTable
    THEN RiccatiTable[<<a, b, q, r>>]
    ELSE StabilizingSolutions(a, b, q, r)

\* scipy.linalg.solve_discrete_are(a, b, q, r): the stabilizing solution, or
\* ValueError for arguments it rejects, or LinAlgError when the stable
\* subspace of the pencil cannot be isolated
SolveDiscreteAre(a, b, q, r) ==
    IF ~SolverShapesOk(a, b, q, r)
    THEN [ok |-> FALSE, error |-> Raise("ValueError", "shape")]
    ELSE IF ~IsSymmetric(q) \/ ~IsSymmetric(r)
    THEN [ok |-> FALSE, error |-> Raise("ValueError", "should be symmetric/hermitian")]
    ELSE IF Solutions(a, b, q, r) # {}
    THEN [ok |-> TRUE, x |-> CHOOSE p \in Solutions(a, b, q, r) : TRUE]
    ELSE [ok |-> FALSE, error |-> Raise("LinAlgError", "Failed to find a finite solution.")]

\* the arguments on which the model knows what the solver does
SolverDecided(a, b, q, r) ==
    \/ ~SolverShapesOk(a, b, q, r)
    \/ ~IsSymmetric(q) \/ ~IsSymmetric(r)
    \/ NoStabilizingSolution(a, b, q, r)
    \/ Solutions(a, b, q, r) # {}

LqrArgs ==
    {g \in ShapeArgs \cup ValueArgs : SolverDecided(g[1], g[2], g[3], g[4])}

\* the integrate frame while lqr runs
IntegrateOff ==
    /\ x0 = <<>> /\ pi = [kind |-> "zero"] /\ num_steps = 0 /\ ipc = "off"
    /\ step = 0 /\ traj = <<>> /\ pi_args = <<>> /\ itraj = <<>>
    /\ iraised = NoError

\* a call lqr(A, B, Q, R) on the module-level matrices
InitLqr ==
    /\ \E g \in LqrArgs : A = g[1] /\ B = g[2] /\ Q = g[3] /\ R = g[4]
    /\ goal_state = <<>> /\ C = <<>> /\ D = <<>>
    /\ lpc = "check" /\ M = <<>> /\ raised = NoError /\ K = NoGain
    /\ solver_calls = 0 /\ gain_calls = 0
    /\ IntegrateOff
    /\ NoSession

\* the assertions without the one on B's rows
FirstFailedAssertNoB(a, b, q, r) ==
    IF ~(Rows(a) = Cols(a)) THEN "A matrix is not square"
    ELSE IF ~(Rows(q) = Cols(q)) THEN "Q matrix is not square"
    ELSE IF ~(Rows(r) = Cols(r)) THEN "R matrix is not square"
    ELSE IF ~(Rows(q) = Rows(a)) THEN "Q matrix is incorrect size"
    ELSE IF ~(Rows(r) = Cols(b)) THEN "R matrix is incorrect size"
    ELSE ""

\* assertions whose messages do not say which matrix failed
FirstFailedAssertVague(a, b, q, r) ==
    IF ~(Rows(a) = Cols(a) /\ Rows(q) = Cols(q) /\ Rows(r) = Cols(r))
    THEN "matrix is not square"
    ELSE IF ~(Rows(b) = Rows(a) /\ Rows(q) = Rows(a) /\ Rows(r) = Cols(b))
    THEN "matrix is incorrect size"
    ELSE ""

\* the assertions with the checks against A and B ahead of the squareness
\* checks
FirstFailedAssertReordered(a, b, q, r) ==
    IF ~(Rows(b) = Rows(a)) THEN "B matrix is incorrect shape"
    ELSE IF ~(Rows(q) = Rows(a)) THEN "Q matrix is incorrect size"
    ELSE IF ~(Rows(r) = Cols(b)) THEN "R matrix is incorrect size"
    ELSE IF ~(Rows(a) = Cols(a)) THEN "A matrix is not square"
    ELSE IF ~(Rows(q) = Cols(q)) THEN "Q matrix is not square"
    ELSE IF ~(Rows(r) = Cols(r)) THEN "R matrix is not square"
    ELSE ""

\* the six assert statements in order: the message of the first that fails,
\* or "" when all hold (num_states = A.shape[0], num_controls = B.shape[1])
FirstFailedAssert(a, b, q, r) ==
    LET num_states   == Rows(a)
        num_controls == Cols(b)
    IN  IF ~(Rows(a) = Cols(a)) THEN "A matrix is not square"
        ELSE IF ~(Rows(q) = Cols(q)) THEN "Q matrix is not square"
        ELSE IF ~(Rows(r) = Cols(r)) THEN "R matrix is not square"
        ELSE IF ~(Rows(b) = num_states) THEN "B matrix is incorrect shape"
        ELSE IF ~(Rows(q) = num_states) THEN "Q matrix is incorrect size"
        ELSE IF ~(Rows(r) = num_controls) THEN "R matrix is incorrect size"
        ELSE ""

\* # Check matrix dimensions
LqrCheck ==
    /\ lpc = "check"
    /\ LET msg == FirstFailedAssert(A, B, Q, R)
       IN  IF msg # ""
           THEN /\ raised' = Raise("AssertionError", msg)
                /\ lpc' = "raised"
           ELSE /\ raised' = raised
                /\ lpc' = "solve"
    /\ UNCHANGED <<globals, iframe, session, M, K, solver_calls, gain_calls>>

\* M = scipy.linalg.solve_discrete_are(A, B, Q, R)
LqrSolve ==
    /\ lpc = "solve"
    /\ solver_calls' = solver_calls + 1
    /\ LET got == SolveDiscreteAre(A, B, Q, R)
       IN  IF got.ok
           THEN /\ M' = got.x
                /\ lpc' = "gain"
                /\ raised' = raised
           ELSE /\ M' = M
                /\ lpc' = "raised"
                /\ raised' = got.error
    /\ UNCHANGED <<globals, iframe, session, K, gain_calls>>

\* a gain that leaves R out of the inverted term
GainNoR(a, b, r, m) ==
    LET inv == Inv(MatMul(MatMul(Transpose(b), m), b))
    IN  IF inv.ok
        THEN [ok |-> TRUE,
              num |-> MatMul(inv.num, MatMul(MatMul(Transpose(b), m), a)),
              den |-> inv.den]
        ELSE inv

\* a gain that refuses a singular R before inverting
GainRejectsSingularR(a, b, r, m) ==
    IF Det(r) = 0
    THEN [ok |-> FALSE, error |-> Raise("SingularControlCost", "R is singular")]
    ELSE LET inv == Inv(MatAdd(MatMul(MatMul(Transpose(b), m), b), r))
         IN  IF inv.ok
             THEN [ok |-> TRUE,
                   num |-> MatMul(inv.num, MatMul(MatMul(Transpose(b), m), a)),
                   den |-> inv.den]
             ELSE inv

\* a gain of the opposite sign
GainNegated(a, b, r, m) ==
    LET inv == Inv(MatAdd(MatMul(MatMul(Transpose(b), m), b), r))
    IN  IF inv.ok
        THEN [ok |-> TRUE,
              num |-> Scale(-1, MatMul(inv.num, MatMul(MatMul(Transpose(b), m), a))),
              den |-> inv.den]
        ELSE inv

\* a gain with the factors the other way round: (A'MB) (B'MB + R)^-1
GainTransposed(a, b, r, m) ==
    LET inv == Inv(MatAdd(MatMul(MatMul(Transpose(b), m), b), r))
    IN  IF inv.ok
        THEN [ok |-> TRUE,
              num |-> MatMul(MatMul(MatMul(Transpose(a), m), b), inv.num),
              den |-> inv.den]
        ELSE inv

\* np.dot(scipy.linalg.inv(np.dot(np.dot(B.T, M), B) + R),
\*        np.dot(np.dot(B.T, M), A))
Gain(a, b, r, m) ==
    LET inv == Inv(MatAdd(MatMul(MatMul(Transpose(b), m), b), r))
    IN  IF inv.ok
        THEN [ok |-> TRUE,
              num |-> MatMul(inv.num, MatMul(MatMul(Transpose(b), m), a)),
              den |-> inv.den]
        ELSE inv

\* return np.dot(...)
LqrGain ==
    /\ lpc = "gain"
    /\ gain_calls' = gain_calls + 1
    /\ LET got == Gain(A, B, R, M)
       IN  IF got.ok
           THEN /\ K' = [num |-> got.num, den |-> got.den]
                /\ lpc' = "returned"
                /\ raised' = raised
           ELSE /\ K' = K
                /\ lpc' = "raised"
                /\ raised' = got.error
    /\ UNCHANGED <<globals, iframe, session, M, solver_calls>>

NextLqr == LqrCheck \/ LqrSolve \/ LqrGain

SpecLqr == InitLqr /\ [][NextLqr]_vars

---------------------------------------------------------------------------
(* One call of either function: integrate on arguments that need not fit   *)
(* the system, or lqr on a scalar system or on arguments of any shape with *)
(* dimensions 1 and 2.                                                     *)

CallArgs ==
    {g \in UNION {Matrices(s[1], s[2], {1}) \X Matrices(s[3], s[4], {1})
                      \X Matrices(s[5], s[6], {1}) \X Matrices(s[7], s[8], {1}) :
                          s \in [1 .. 8 -> 1 .. 2]}
               \cup (Matrices(1, 1, Entries) \X Matrices(1, 1, Entries)
                         \X Matrices(1, 1, CostEntries)
                         \X Matrices(1, 1, ControlCostEntries)) :
        SolverDecided(g[1], g[2], g[3], g[4])}

InitLqrCall ==
    /\ \E g \in CallArgs : A = g[1] /\ B = g[2] /\ Q = g[3] /\ R = g[4]
    /\ goal_state = <<>> /\ C = <<>> /\ D = <<>>
    /\ lpc = "check" /\ M = <<>> /\ raised = NoError /\ K = NoGain
    /\ solver_calls = 0 /\ gain_calls = 0
    /\ IntegrateOff
    /\ NoSession

InitCall == InitIntegrateAny \/ InitLqrCall

NextCall == NextIntegrate \/ NextLqr

SpecCall == InitCall /\ [][NextCall]_vars

\* a call that has begun runs on: nothing else is scheduled in the notebook
SpecCallFair == SpecCall /\ WF_vars(NextCall)

---------------------------------------------------------------------------
(* Two calls at the same time, each in a thread of its own: the call of    *)
(* the frames above and a second call, whose arguments and locals are the  *)
(* fields of other.  The module-level variables are shared.                *)

\* lqr on a scalar system
ScalarArgs ==
    {g \in Matrices(1, 1, Entries) \X Matrices(1, 1, Entries)
               \X Matrices(1, 1, CostEntries) \X Matrices(1, 1, ControlCostEntries) :
        SolverDecided(g[1], g[2], g[3], g[4])}

ThreadStarts == {<<0, 1>>, <<1, 1>>}

InitThreadsIntegrate ==
    /\ A \in AnyDynamics
    /\ B \in SessionInputs
    /\ goal_state = <<1, 0>>
    /\ C = VecNeg(goal_state)
    /\ D \in Matrices(1, 1, OffsetEntries)
    /\ Q = <<>> /\ R = <<>>
    /\ x0 \in ThreadStarts
    /\ pi \in SessionPolicies
    /\ num_steps \in 0 .. MaxSteps
    /\ ipc = "call" /\ step = 0 /\ traj = <<>> /\ pi_args = <<>> /\ itraj = <<>>
    /\ iraised = NoError
    /\ LqrOff
    /\ history = <<>>
    /\ \E x \in ThreadStarts, p \in SessionPolicies, n \in 0 .. MaxSteps :
          other = [kind |-> "integrate", x0 |-> x, pi |-> p, num_steps |-> n,
                   ipc |-> "call", step |-> 0, traj |-> <<>>, itraj |-> <<>>,
                   iraised |-> NoError, overlap |-> FALSE]

InitThreadsLqr ==
    /\ \E g \in CallArgs : A = g[1] /\ B = g[2] /\ Q = g[3] /\ R = g[4]
    /\ goal_state = <<>> /\ C = <<>> /\ D = <<>>
    /\ lpc = "check" /\ M = <<>> /\ raised = NoError /\ K = NoGain
    /\ solver_calls = 0 /\ gain_calls = 0
    /\ IntegrateOff
    /\ history = <<>>
    /\ \E g \in ScalarArgs :
          other = [kind |-> "lqr", A |-> g[1], B |-> g[2], Q |-> g[3], R |-> g[4],
                   lpc |-> "check", M |-> <<>>, raised |-> NoError, K |-> NoGain,
                   overlap |-> FALSE]

\* an array traj that the calls share (a module-level traj)
SharedRows == IF traj # <<>> THEN traj ELSE other.traj

\* traj is a local of the call
OtherRows == other.traj

\* the first call is in the middle of its work
Midway ==
    \/ ipc = "loop" /\ 0 < step /\ step < num_steps
    \/ lpc \in {"solve", "gain"}

OtherEnter ==
    /\ other.kind = "integrate"
    /\ other.ipc = "call"
    /\ other' = IF Broadcastable(other.x0, C)
                THEN [other EXCEPT !.traj = <<FirstRow(other.x0)>>, !.ipc = "loop"]
                ELSE [other EXCEPT
                          !.iraised = Raise("ValueError",
                                            "operands could not be broadcast together"),
                          !.ipc = "raised"]
    /\ UNCHANGED <<globals, iframe, lframe, history>>

OtherStep ==
    /\ other.kind = "integrate"
    /\ other.ipc = "loop"
    /\ other.step < other.num_steps
    /\ LET x == LastRow(OtherRows)
           o == StepOutcome(other.pi, x)
       IN  other' = IF o.ok
                    THEN [other EXCEPT !.traj = Append(OtherRows, o.x_prime),
                                       !.step = other.step + 1,
                                       !.overlap = other.overlap \/ Midway]
                    ELSE [other EXCEPT !.iraised = o.error, !.ipc = "raised"]
    /\ UNCHANGED <<globals, iframe, lframe, history>>

OtherReturn ==
    /\ other.kind = "integrate"
    /\ other.ipc = "loop"
    /\ ~(other.step < other.num_steps)
    /\ other' = [other EXCEPT !.itraj = Unshift(OtherRows), !.ipc = "done"]
    /\ UNCHANGED <<globals, iframe, lframe, history>>

OtherLqrCheck ==
    /\ other.kind = "lqr"
    /\ other.lpc = "check"
    /\ LET msg == FirstFailedAssert(other.A, other.B, other.Q, other.R)
       IN  other' = IF msg # ""
                    THEN [other EXCEPT !.raised = Raise("AssertionError", msg),
                                       !.lpc = "raised"]
                    ELSE [other EXCEPT !.lpc = "solve", !.overlap = Midway]
    /\ UNCHANGED <<globals, iframe, lframe, history>>

OtherLqrSolve ==
    /\ other.kind = "lqr"
    /\ other.lpc = "solve"
    /\ LET got == SolveDiscreteAre(other.A, other.B, other.Q, other.R)
       IN  other' = IF got.ok
                    THEN [other EXCEPT !.M = got.x, !.lpc = "gain",
                                       !.overlap = other.overlap \/ Midway]
                    ELSE [other EXCEPT !.raised = got.error, !.lpc = "raised"]
    /\ UNCHANGED <<globals, iframe, lframe, history>>

OtherLqrGain ==
    /\ other.kind = "lqr"
    /\ other.lpc = "gain"
    /\ LET got == Gain(other.A, other.B, other.R, other.M)
       IN  other' = IF got.ok
                    THEN [other EXCEPT !.K = [num |-> got.num, den |-> got.den],
                                       !.lpc = "returned"]
                    ELSE [other EXCEPT !.raised = got.error, !.lpc = "raised"]
    /\ UNCHANGED <<globals, iframe, lframe, history>>

NextOther ==
    \/ OtherEnter \/ OtherStep \/ OtherReturn
    \/ OtherLqrCheck \/ OtherLqrSolve \/ OtherLqrGain

InitThreads == InitThreadsIntegrate \/ InitThreadsLqr

NextThreads == NextIntegrate \/ NextLqr \/ NextOther

SpecThreads == InitThreads /\ [][NextThreads]_vars

---------------------------------------------------------------------------
(* The contract of integrate, in the words of the specification:           *)
(* offset_state is goal_state (C = -goal_state), offset_control is the     *)
(* squeezed D, and the trajectory is the returned array.                   *)

offset_state   == goal_state
offset_control == Squeeze(D)
Returned       == ipc = "done"

IdentityMatrix(n) == [i \in 1 .. n |-> [j \in 1 .. n |-> IF i = j THEN 1 ELSE 0]]
ZeroMatrix(r, c)  == [i \in 1 .. r |-> [j \in 1 .. c |-> 0]]

\* entry i of A*s + B*(u + offset_control), written out as sums
StepEntry(s, u, i) ==
    SumTo([j \in 1 .. Len(s) |-> A[i][j] * s[j]], Len(s))
        + SumTo([j \in 1 .. Len(u) |-> B[i][j] * (u[j] + offset_control[j])], Len(u))

\* C1: a returned trajectory T starts at x0 and every later element obeys
\* T[k+1] - offset_state = A*(T[k] - offset_state)
\*                         + B*(policy(T[k] - offset_state) + offset_control)
C1_Recurrence ==
    (Returned /\ num_steps >= 0) =>
        /\ itraj[1] = x0
        /\ \A k \in 1 .. num_steps :
              /\ k + 1 \in DOMAIN itraj
              /\ LET s == VecSub(itraj[k], offset_state)
                     u == Apply(pi, s)
                 IN  \A i \in StateIdx :
                        itraj[k + 1][i] - offset_state[i] = StepEntry(s, u, i)

C1_Witness ==
    /\ Returned /\ num_steps = MaxSteps
    /\ pi.kind = "feedback" /\ \E j \in StateIdx : pi.k[1][j] # 0
    /\ \E i \in StateIdx : offset_state[i] # 0
    /\ \E i \in CtrlIdx : offset_control[i] # 0
    /\ itraj[2] # itraj[1] /\ itraj[3] # itraj[2]

\* C2: the returned trajectory has num_steps + 1 elements (num_steps >= 0),
\* and inside the loop traj has i + 1 rows after i iterations
C2_Length ==
    /\ (Returned /\ num_steps >= 0) => Len(itraj) = num_steps + 1
    /\ ipc = "loop" => Len(traj) = step + 1

C2_Witness == Returned /\ num_steps = MaxSteps /\ Len(itraj) = MaxSteps + 1

\* C3: with num_steps = 0 the call returns the one-element trajectory <<x0>>
\* and never calls the policy
C3_ZeroSteps ==
    num_steps = 0 =>
        /\ pi_args = <<>>
        /\ Returned => itraj = <<x0>>

C3_Witness ==
    /\ Returned /\ num_steps = 0 /\ itraj = <<x0>>
    /\ offset_state # Zeros(Len(offset_state)) /\ x0 # Zeros(Len(x0))

\* C4: zero policy, offset_control = 0, A = identity and B = zero give a
\* trajectory whose every element is x0
C4_Constant ==
    ( /\ Returned
      /\ pi.kind = "zero"
      /\ offset_control = Zeros(Len(offset_control))
      /\ A = IdentityMatrix(Len(A))
      /\ B = ZeroMatrix(Rows(B), Cols(B)) ) =>
        \A k \in DOMAIN itraj : itraj[k] = x0

C4_Witness ==
    /\ Returned /\ pi.kind = "zero" /\ num_steps = MaxSteps
    /\ offset_control = Zeros(Len(offset_control))
    /\ A = IdentityMatrix(Len(A)) /\ B = ZeroMatrix(Rows(B), Cols(B))
    /\ x0 # offset_state /\ offset_state # Zeros(Len(offset_state))
    /\ Len(itraj) = MaxSteps + 1 /\ itraj[Len(itraj)] = x0

\* entry i of A*s - B*(k*s): the closed loop without any control offset
ClosedLoopEntry(k, s, i) ==
    SumTo([j \in 1 .. Len(s) |-> A[i][j] * s[j]], Len(s))
        - SumTo([j \in 1 .. Rows(k) |->
                    B[i][j] * SumTo([l \in 1 .. Len(s) |-> k[j][l] * s[l]], Len(s))],
                Rows(k))

\* C5: under u(s) = -K*s - offset_control every step is s' = A*s - B*K*s,
\* whatever offset_control is, and a trajectory started at offset_state
\* stays at offset_state
C5_OffsetCancels ==
    pi.kind = "feedback" =>
        /\ \A n \in DOMAIN traj :
              n + 1 \in DOMAIN traj =>
                  \A i \in StateIdx :
                      traj[n + 1][i] = ClosedLoopEntry(pi.k, traj[n], i)
        /\ (Returned /\ x0 = offset_state) =>
              \A n \in DOMAIN itraj : itraj[n] = offset_state

C5_Witness ==
    /\ Returned /\ pi.kind = "feedback" /\ num_steps = MaxSteps
    /\ x0 = offset_state /\ offset_state # Zeros(Len(offset_state))
    /\ MatVec(B, offset_control) # Zeros(Rows(B))
    /\ \E j \in StateIdx : pi.k[1][j] # 0
    /\ itraj[Len(itraj)] = offset_state

---------------------------------------------------------------------------
(* The contract of lqr (solve_gain), in the words of the specification.    *)

LqrEnded    == lpc \in {"raised", "returned"}
LqrReturned == lpc = "returned"

\* the six shape preconditions
ShapesValid ==
    /\ Rows(A) = Cols(A)
    /\ Rows(Q) = Cols(Q)
    /\ Rows(R) = Cols(R)
    /\ Rows(B) = Rows(A)
    /\ Rows(Q) = Rows(A)
    /\ Rows(R) = Cols(B)

\* the shape error of the code is the AssertionError of an assert statement
IsShapeError(e) == e.type = "AssertionError"

\* an exception that carries the dimension that was expected
NamesExpectedDimension(e) == "expected" \in DOMAIN e

\* the message names a matrix, and that matrix violates the precondition named
Blames(msg) ==
    /\ msg \in {"A matrix is not square", "Q matrix is not square",
                "R matrix is not square", "B matrix is incorrect shape",
                "Q matrix is incorrect size", "R matrix is incorrect size"}
    /\ msg = "A matrix is not square" => Rows(A) # Cols(A)
    /\ msg = "Q matrix is not square" => Rows(Q) # Cols(Q)
    /\ msg = "R matrix is not square" => Rows(R) # Cols(R)
    /\ msg = "B matrix is incorrect shape" => Rows(B) # Rows(A)
    /\ msg = "Q matrix is incorrect size" => Rows(Q) # Rows(A)
    /\ msg = "R matrix is incorrect size" => Rows(R) # Cols(B)

\* C6 as stated: a violated shape precondition ends the call with a shape
\* error that identifies the matrix and the expected dimension, and valid
\* shapes raise no shape error
C6_AsStated ==
    LqrEnded =>
        /\ ~ShapesValid =>
              /\ IsShapeError(raised)
              /\ Blames(raised.msg)
              /\ NamesExpectedDimension(raised)
        /\ ShapesValid => ~IsShapeError(raised)

\* C6 (amended): a violated shape precondition ends the call with an
\* AssertionError that carries only a message, which names a matrix violating
\* its precondition and no dimension; valid shapes raise no AssertionError
C6_ShapeChecks ==
    LqrEnded =>
        /\ ~ShapesValid =>
              /\ IsShapeError(raised)
              /\ Blames(raised.msg)
              /\ DOMAIN raised = {"type", "msg"}
        /\ ShapesValid => ~IsShapeError(raised)

C6_Witness ==
    /\ lpc = "raised" /\ IsShapeError(raised)
    /\ raised.msg = "B matrix is incorrect shape"
    /\ Rows(A) = Cols(A) /\ Rows(B) # Rows(A)

\* C7: when a shape precondition is violated, neither the Riccati solver nor
\* the gain computation is ever invoked
C7_NoNumericalWork ==
    ~ShapesValid => (solver_calls = 0 /\ gain_calls = 0 /\ M = <<>>)

\* the scenario of the specification: A of shape 3 x 3 and B of shape 4 x 2
C7_Witness ==
    /\ lpc = "raised" /\ IsShapeError(raised) /\ solver_calls = 0
    /\ Rows(A) = 3 /\ Cols(A) = 3 /\ Rows(B) = 4 /\ Cols(B) = 2

\* C8: the returned gain has N = B.shape[1] rows and M = A.shape[0] columns
C8_GainShape ==
    LqrReturned =>
        /\ Len(K.num) = Cols(B)
        /\ \A i \in DOMAIN K.num : Len(K.num[i]) = Rows(A)
        /\ K.den # 0

C8_Witness ==
    /\ LqrReturned /\ Rows(A) = 2 /\ Cols(B) = 1
    /\ Len(K.num) = 1 /\ Len(K.num[1]) = 2

\* C9: the returned K satisfies (B'PB + R) K = B'PA for the solver's P,
\* and P = A'PA - A'PB K + Q   (K = K.num / K.den)
C9_GainFormula ==
    LqrReturned =>
        LET P   == M
            BtP == MatMul(Transpose(B), P)
        IN  /\ K.den # 0
            /\ MatMul(MatAdd(MatMul(BtP, B), R), K.num)
                   = Scale(K.den, MatMul(BtP, A))
            /\ Scale(K.den, P)
                   = MatAdd(MatSub(Scale(K.den, MatMul(MatMul(Transpose(A), P), A)),
                                   MatMul(MatMul(MatMul(Transpose(A), P), B), K.num)),
                            Scale(K.den, Q))

\* a gain that is neither zero nor a matrix of integers
C9_Witness ==
    /\ LqrReturned /\ Rows(A) = 2
    /\ \E i \in DOMAIN R : R[i][i] # 0
    /\ \E j \in 1 .. Rows(A) : K.num[1][j] % K.den # 0

\* a symmetric matrix is positive semidefinite iff every principal minor is
\* >= 0, and positive definite iff every leading principal minor is > 0
Increasing(I) ==
    CHOOSE f \in [1 .. Cardinality(I) -> I] :
        \A i, j \in 1 .. Cardinality(I) : i < j => f[i] < f[j]
Principal(m, I) ==
    [i \in 1 .. Cardinality(I) |->
        [j \in 1 .. Cardinality(I) |-> m[Increasing(I)[i]][Increasing(I)[j]]]]
PositiveSemidefinite(m) ==
    /\ IsSymmetric(m)
    /\ \A I \in SUBSET (1 .. Rows(m)) : I # {} => Det(Principal(m, I)) >= 0
PositiveDefinite(m) ==
    /\ IsSymmetric(m)
    /\ \A n \in 1 .. Rows(m) : Det(Principal(m, 1 .. n)) > 0

\* (A, B) is controllable: the columns of B and AB span the state space
\* (state dimension at most 2)
Column(m, j) == [i \in 1 .. Rows(m) |-> m[i][j]]
Controllable(a, b) ==
    LET cols == {Column(b, j) : j \in 1 .. Cols(b)}
                    \cup {Column(MatMul(a, b), j) : j \in 1 .. Cols(b)}
    IN  \E f \in [1 .. Rows(a) -> cols] :
            Det([i \in 1 .. Rows(a) |-> [j \in 1 .. Rows(a) |-> f[j][i]]]) # 0

\* A is stable or stabilizable via B
Stabilizable(a, b) == SchurStable(a, 1) \/ Controllable(a, b)

\* the closed-loop matrix A - B K has spectral radius < 1
ClosedLoopStable ==
    SchurStable(MatSub(Scale(K.den, A), MatMul(B, K.num)), K.den)

\* C10 as stated: for stabilizable (A, B) and symmetric positive
\* semidefinite Q and R, lqr returns K with spectral radius of A - BK below 1
C10_AsStated ==
    ( /\ LqrEnded /\ ShapesValid
      /\ Stabilizable(A, B)
      /\ PositiveSemidefinite(Q) /\ PositiveSemidefinite(R) ) =>
        (LqrReturned /\ ClosedLoopStable)

\* C10 (amended): for stabilizable (A, B) and symmetric positive definite
\* Q and R, lqr returns K with spectral radius of A - BK below 1
C10_ClosedLoopStable ==
    ( /\ LqrEnded /\ ShapesValid
      /\ Stabilizable(A, B)
      /\ PositiveDefinite(Q) /\ PositiveDefinite(R) ) =>
        (LqrReturned /\ ClosedLoopStable)

\* an unstable A is stabilized by a nonzero gain
C10_Witness ==
    /\ LqrReturned /\ Rows(A) = 2
    /\ ~SchurStable(A, 1) /\ Controllable(A, B)
    /\ PositiveDefinite(Q) /\ PositiveDefinite(R)
    /\ ClosedLoopStable

\* R is the zero matrix
ZeroControlCost == R = ZeroMatrix(Rows(R), Cols(R))

\* C11 as stated: correctly shaped inputs with R = 0 end in a
\* SingularControlCost error and no gain
C11_AsStated ==
    (LqrEnded /\ ShapesValid /\ ZeroControlCost) =>
        /\ lpc = "raised"
        /\ raised.type = "SingularControlCost"
        /\ K = NoGain

\* C11 (amended): with R = 0 the call either returns the gain
\* K = (B'PB)^-1 B'PA, B'PB being invertible, or ends in scipy's LinAlgError
\* (ValueError for a Q that is not symmetric) without a gain
C11_ZeroControlCost ==
    (LqrEnded /\ ShapesValid /\ ZeroControlCost) =>
        \/ /\ LqrReturned
           /\ raised = NoError
           /\ Det(MatMul(MatMul(Transpose(B), M), B)) # 0
           /\ MatMul(MatMul(MatMul(Transpose(B), M), B), K.num)
                  = Scale(K.den, MatMul(MatMul(Transpose(B), M), A))
        \/ /\ lpc = "raised"
           /\ raised.type \in {"LinAlgError", "ValueError"}
           /\ K = NoGain

\* R = 0 and a gain that is not zero comes back
C11_Witness ==
    /\ LqrReturned /\ ShapesValid /\ ZeroControlCost
    /\ Rows(A) = 2
    /\ \E j \in 1 .. Rows(A) : K.num[1][j] # 0

---------------------------------------------------------------------------
(* Calls of integrate with arguments that do not fit the system. *)

IntegrateEnded == ipc \in {"done", "raised"}

\* x0 has not the length of the state, or a call of the policy returned a
\* control that has not the length of the control
IllShaped ==
    \/ Len(x0) # Rows(A)
    \/ \E i \in DOMAIN pi_args :
          ~PolicyRaises(pi, pi_args[i]) /\ Len(Apply(pi, pi_args[i])) # Cols(B)

\* C12: a call whose x0 has not length M, or whose policy returns a control
\* that has not length N, fails (with whatever exception) and returns no
\* trajectory
C12_ShapesValidated ==
    (IntegrateEnded /\ IllShaped) => (ipc = "raised" /\ itraj = <<>>)

\* an x0 of length 1 was broadcast against the offset and a trajectory of
\* full-length states came back
C12_Broadcast ==
    /\ Returned /\ Len(x0) = 1 /\ Rows(A) = 2 /\ num_steps = MaxSteps
    /\ \A i \in DOMAIN itraj : Len(itraj[i]) = 2

---------------------------------------------------------------------------
(* Two calls of integrate with the same arguments in one session. *)

SecondReturned == ipc = "done" /\ history # <<>>

\* the module-level variables integrate reads are what they were during the
\* first call
SameGlobals ==
    <<A, B, C, D>> = <<history[1].A, history[1].B, history[1].C, history[1].D>>

---------------------------------------------------------------------------
(* The outcome of lqr as a function of its inputs. *)

---------------------------------------------------------------------------
(* One call: what it leaves alone, how it fails and how it ends. *)

\* C15: no step of integrate or of lqr changes an input: the matrices A, B,
\* Q, R, the offsets goal_state, C, D, the argument x0, the policy and
\* num_steps are after every step what they were before it
C15_NoSideEffects ==
    [][/\ A' = A /\ B' = B /\ Q' = Q /\ R' = R
       /\ goal_state' = goal_state /\ C' = C /\ D' = D
       /\ x0' = x0 /\ pi' = pi /\ num_steps' = num_steps]_vars

\* integrate returned after shifting by an offset that is not zero and
\* stepping MaxSteps times
C15_Witness ==
    /\ Returned /\ num_steps = MaxSteps
    /\ \E i \in DOMAIN C : C[i] # 0
    /\ itraj[1] = x0 /\ traj[1] # x0

\* the loop body cannot complete from the shifted state s: the policy
\* raises, or its control fits neither the control offset nor B
StepFails(s) ==
    \/ PolicyRaises(pi, s)
    \/ ~Broadcastable(Apply(pi, s), offset_control)
    \/ BroadcastLen(Apply(pi, s), offset_control) # Cols(B)

\* C16: a failure ends the call at once, with no retry and no partial
\* result: a call of lqr that raised has no gain, ran the solver at most once
\* and not at all after a failed shape check, and never evaluated the gain; a
\* call of integrate whose policy or step fails at some iteration ended with
\* that exception at that iteration and returned no trajectory; a call that
\* raised takes no further step
C16_NoRetryNoPartial ==
    /\ solver_calls <= 1
    /\ lpc = "raised" =>
           /\ K = NoGain /\ gain_calls = 0
           /\ raised # NoError
           /\ IsShapeError(raised) => solver_calls = 0
    /\ ipc = "raised" => (itraj = <<>> /\ iraised # NoError)
    /\ \A i \in DOMAIN pi_args :
           StepFails(pi_args[i]) =>
               /\ ipc = "raised"
               /\ i = Len(pi_args) /\ i = step + 1 /\ Len(traj) = i
    /\ (ipc = "raised" \/ lpc = "raised") => ~ENABLED NextCall

\* the policy raised at the second iteration, after one state was computed
C16_Witness ==
    /\ ipc = "raised" /\ iraised.type = "KeyError"
    /\ step = 1 /\ Len(traj) = 2 /\ Len(pi_args) = 2
    /\ itraj = <<>>

CallEnded == IntegrateEnded \/ LqrEnded

\* C19: every call ends.  integrate returns after exactly num_steps passes
\* of its loop (none for a negative num_steps) when every call of the policy
\* returned, and lqr ends after its checks, one solve at most and one
\* evaluation of the gain at most
C19_Terminates ==
    /\ <>CallEnded
    /\ [](Returned => (/\ step = (IF num_steps > 0 THEN num_steps ELSE 0)
                       /\ Len(pi_args) = step))
    /\ [](solver_calls <= 1 /\ gain_calls <= 1)
    /\ [](LqrReturned => (solver_calls = 1 /\ gain_calls = 1))

\* integrate returned after MaxSteps passes
C19_Witness == Returned /\ num_steps = MaxSteps /\ step = MaxSteps

---------------------------------------------------------------------------
(* The calls of the policy. *)

\* C20: the policy is called once per step, in step order, each time on the
\* shifted state appended last: the i-th call gets row i of traj, which is
\* element i of the returned trajectory less offset_state (x0 - offset_state
\* for the first call), and the state appended last of all is never passed
C20_PolicyArguments ==
    /\ ipc \in {"loop", "done"} =>
           /\ Len(pi_args) = step
           /\ Len(traj) = step + 1
           /\ \A i \in DOMAIN pi_args : pi_args[i] = traj[i]
    /\ Returned =>
           /\ Len(pi_args) = (IF num_steps > 0 THEN num_steps ELSE 0)
           /\ Len(itraj) = Len(pi_args) + 1
           /\ \A i \in DOMAIN pi_args : pi_args[i] = VecSub(itraj[i], offset_state)
           /\ pi_args # <<>> => pi_args[1] = VecSub(x0, offset_state)

\* MaxSteps calls on states that differ, shifted by an offset that is not
\* zero
C20_Witness ==
    /\ Returned /\ num_steps = MaxSteps /\ Len(pi_args) = MaxSteps
    /\ pi_args[1] # pi_args[2]
    /\ pi_args[1] # x0

---------------------------------------------------------------------------
(* Two calls at the same time. *)

\* the rows a call of integrate computes when it runs alone
RECURSIVE RowsAlone(_, _, _)
RowsAlone(p, rows, n) ==
    IF n <= 0
    THEN rows
    ELSE RowsAlone(p, Append(rows, XPrime(LastRow(rows), Apply(p, LastRow(rows)))),
                   n - 1)

\* what integrate(x, p, n) returns when it runs alone
IntegrateAlone(x, p, n) == Unshift(RowsAlone(p, <<FirstRow(x)>>, n))

\* how lqr(a, b, q, r) ends when it runs alone
LqrAlone(a, b, q, r) ==
    IF FirstFailedAssert(a, b, q, r) # ""
    THEN [raised |-> Raise("AssertionError", FirstFailedAssert(a, b, q, r)),
          K |-> NoGain]
    ELSE IF ~SolveDiscreteAre(a, b, q, r).ok
    THEN [raised |-> SolveDiscreteAre(a, b, q, r).error, K |-> NoGain]
    ELSE LET got == Gain(a, b, r, SolveDiscreteAre(a, b, q, r).x)
         IN  IF got.ok
             THEN [raised |-> NoError, K |-> [num |-> got.num, den |-> got.den]]
             ELSE [raised |-> got.error, K |-> NoGain]

\* C17: whatever the interleaving of the steps of two calls, each call ends
\* as it ends when it runs alone
C17_Independent ==
    /\ Returned => itraj = IntegrateAlone(x0, pi, num_steps)
    /\ (other.kind = "integrate" /\ other.ipc = "done") =>
           other.itraj = IntegrateAlone(other.x0, other.pi, other.num_steps)
    /\ LqrEnded => [raised |-> raised, K |-> K] = LqrAlone(A, B, Q, R)
    /\ (other.kind = "lqr" /\ other.lpc \in {"raised", "returned"}) =>
           [raised |-> other.raised, K |-> other.K]
               = LqrAlone(other.A, other.B, other.Q, other.R)

\* two calls of integrate of MaxSteps steps each returned trajectories that
\* differ, the second having stepped while the first was in its loop
C17_Witness ==
    /\ Returned /\ num_steps = MaxSteps
    /\ other.kind = "integrate" /\ other.ipc = "done" /\ other.num_steps = MaxSteps
    /\ other.overlap
    /\ other.itraj # itraj
    /\ other.itraj[Len(other.itraj)] # other.x0

---------------------------------------------------------------------------
(* Simulation in two legs. *)

WholeReturned == ipc = "done" /\ Len(history) = 2

\* C21: the trajectory of n + m steps from x0 is the trajectory of n steps
\* from x0 followed by the trajectory of m steps from its last state T_n
\* without its first element; the trajectory of n steps is a prefix of it
C21_Composes ==
    WholeReturned =>
        /\ history[2].x0 = history[1].itraj[Len(history[1].itraj)]
        /\ num_steps = history[1].num_steps + history[2].num_steps
        /\ itraj = history[1].itraj \o Tail(history[2].itraj)
        /\ SubSeq(itraj, 1, history[1].num_steps + 1) = history[1].itraj

\* two legs of MaxSteps steps each under an offset that is not zero, the
\* state moving in both legs
C21_Witness ==
    /\ WholeReturned
    /\ history[1].num_steps = MaxSteps /\ history[2].num_steps = MaxSteps
    /\ Len(itraj) = 2 * MaxSteps + 1
    /\ \E i \in DOMAIN C : C[i] # 0
    /\ history[2].x0 # x0
    /\ itraj[Len(itraj)] # history[2].x0

---------------------------------------------------------------------------
(* The order of the shape checks of lqr. *)

\* the six shape preconditions in their order, each with whether the
\* arguments violate it and the message of its assert
ShapeChecks ==
    <<[violated |-> Rows(A) # Cols(A),  msg |-> "A matrix is not square"],
      [violated |-> Rows(Q) # Cols(Q),  msg |-> "Q matrix is not square"],
      [violated |-> Rows(R) # Cols(R),  msg |-> "R matrix is not square"],
      [violated |-> Rows(B) # Rows(A),  msg |-> "B matrix is incorrect shape"],
      [violated |-> Rows(Q) # Rows(A),  msg |-> "Q matrix is incorrect size"],
      [violated |-> Rows(R) # Cols(B),  msg |-> "R matrix is incorrect size"]>>

ViolatedChecks == {i \in DOMAIN ShapeChecks : ShapeChecks[i].violated}

\* C22: a call of lqr that violates shape preconditions raises the assertion
\* of the violated check that comes first in the order A square, Q square,
\* R square, B rows, Q size, R size, and nothing of a later one
C22_FirstViolatedCheck ==
    (LqrEnded /\ ViolatedChecks # {}) =>
        /\ lpc = "raised"
        /\ IsShapeError(raised)
        /\ \E i \in ViolatedChecks :
              /\ \A j \in ViolatedChecks : i <= j
              /\ raised.msg = ShapeChecks[i].msg
        /\ solver_calls = 0 /\ gain_calls = 0

\* Q is not square, B has not A's rows and R has not B's columns: the
\* assertion raised is the one on Q
C22_Witness ==
    /\ lpc = "raised"
    /\ ViolatedChecks = {2, 4, 5, 6}
    /\ raised.msg = "Q matrix is not square"

---------------------------------------------------------------------------
(* integrate with a negative num_steps. *)

\* C23: a call with num_steps < 0 raises nothing and never calls the policy,
\* and returns the one-element trajectory <<x0>>; the length of a returned
\* trajectory is max(num_steps, 0) + 1
C23_NegativeSteps ==
    /\ num_steps < 0 =>
           /\ ipc # "raised" /\ iraised = NoError
           /\ pi_args = <<>>
           /\ step = 0
           /\ Returned => itraj = <<x0>>
    /\ Returned => Len(itraj) = (IF num_steps > 0 THEN num_steps ELSE 0) + 1

\* a call with num_steps = -1 returned, under an offset that is not zero
C23_Witness ==
    /\ Returned /\ num_steps = -1
    /\ itraj = <<x0>>
    /\ traj # itraj

===========================================================================
